---- MODULE Spec2Model ----
(***************************************************************************)
(* State machine of SdiRefreshMonitor (src/src/sdi-refresh-monitor.c).     *)
(* One action per GLib callback / public entry point.  Every callback runs *)
(* to completion on the main loop, so an action is one whole handler.      *)
(***************************************************************************)
EXTENDS Naturals, Integers, Sequences, FiniteSets, TLC

\* ------------------------------------------------------------------ bounds
\* asynchronous snapd requests that may be outstanding at the same time
MaxInflight == 2

\* ------------------------------------------------------------ environment
Pkgs == {"A", "B"}
ChangeIds == {"1", "2", "3"}
NULL == ""

\* the kind of a daemon change never changes; one id per kind of interest
ChangeKind(id) ==
  IF id = "1" THEN "auto-refresh" ELSE IF id = "2" THEN "refresh-snap" ELSE "install"

NoticeTypes == {"change-update", "refresh-inhibit", "snap-run-inhibit", "unknown"}
AsyncResults == {"ok", "error", "cancelled"}

\* sequences without repetition over a set, up to a length
RECURSIVE SeqsUpTo(_, _)
SeqsUpTo(S, n) ==
  IF n = 0 THEN {<<>>}
  ELSE LET shorter == SeqsUpTo(S, n - 1)
       IN shorter \cup {Append(s, x) : s \in shorter, x \in S}

Range(s) == {s[i] : i \in DOMAIN s}
NoRepeat(s) == Cardinality(Range(s)) = Len(s)
PkgLists == {s \in SeqsUpTo(Pkgs, Cardinality(Pkgs)) : NoRepeat(s)}

\* ------------------------------------------------------------------ state
VARIABLES
  snaps,            \* self->snaps: name -> SdiSnap
  container,        \* children of self->refresh_bar_container
  main_window,      \* self->main_window # NULL
  changes,          \* self->changes: ids with a poll timer recorded
  timers,           \* pending g_timeout_add_once(refresh_change) sources, per id
  refreshing,       \* self->refreshing_snap_list: name -> SnapProgressTaskData
  inflight,         \* outstanding snapd_client_*_async requests
  monitors,         \* live SnapdNoticesMonitor objects: id -> record
  snapd_monitor,    \* self->snapd_monitor (0 is NULL)
  reconnect,        \* pending g_timeout_add_once(launch_snapd_monitor_after_error)
  life,             \* "live", "disposed", or "crashed" (use after release)
  handler,          \* the callback that ran last, with its inputs
  events,           \* signals and view calls emitted by that callback
  completions,      \* completion queries issued per package since it was last
                    \* marked inhibited (history variable)
  ignoreReq,        \* per package: "no", "yes" (ignore requested, record kept),
                    \* "dropped" (requested, record removed since)
  leaked,           \* a SnapRefreshData, with its reference to the monitor,
                    \* was allocated and handed to nobody
  observed          \* per change id, the class of the status the last
                    \* successful fetch returned (history variable)

vars == <<snaps, container, main_window, changes, timers, refreshing, inflight,
          monitors, snapd_monitor, reconnect, life, handler, events,
          completions, ignoreReq, leaked, observed>>

\* --------------------------------------------------------------- requests
GetChange(id) == [op |-> "get_change", key |-> id]
GetSnaps == [op |-> "get_snaps", key |-> NULL]
GetSnapBegin(name) == [op |-> "get_snap:begin_application_refresh", key |-> name]
GetSnapCompleted(name) == [op |-> "get_snap:show_snap_completed", key |-> name]
Requests ==
  {GetChange(id) : id \in ChangeIds} \cup {GetSnaps}
  \cup {GetSnapBegin(p) : p \in Pkgs} \cup {GetSnapCompleted(p) : p \in Pkgs}

RECURSIVE SumOver(_, _)
SumOver(f, S) ==
  IF S = {} THEN 0
  ELSE LET x == CHOOSE y \in S : TRUE IN f[x] + SumOver(f, S \ {x})

Outstanding(fl) == SumOver(fl, Requests)

\* ----------------------------------------------------------------- events
PendingRefresh(list) ==
  [sig |-> "notify-pending-refresh", snap |-> NULL, name |-> NULL,
   list |-> list, flag |-> FALSE]
PendingRefreshForced(name, allow) ==
  [sig |-> "notify-pending-refresh-forced", snap |-> name, name |-> NULL,
   list |-> <<>>, flag |-> allow]
RefreshComplete(snap, name) ==
  [sig |-> "notify-refresh-complete", snap |-> snap, name |-> name,
   list |-> <<>>, flag |-> FALSE]
DialogProgress(app, summary, done, total) ==
  [sig |-> "set_n_tasks_progress", snap |-> app, name |-> summary,
   list |-> <<done, total>>, flag |-> FALSE]
LauncherUpdate(file, progress, visible) ==
  [sig |-> "launcher-entry-update", snap |-> NULL, name |-> file,
   list |-> progress, flag |-> visible]

\* the record of a callback run: its name, the key, the status or result or
\* notice type it was given, a flag and, for a package list result, the list
RanFull(op, key, arg, flag, list, tasks) ==
  [op |-> op, key |-> key, arg |-> arg, flag |-> flag, list |-> list,
   tasks |-> tasks]
RanWith(op, key, arg, flag, list) == RanFull(op, key, arg, flag, list, <<>>)
Ran(op, key, arg, flag) == RanWith(op, key, arg, flag, <<>>)

\* ---------------------------------------------------------- package store
NoDialog == <<>>

\* sdi_snap_new: a record with every flag unset and no dialog
NewSnap ==
  [inhibited |-> FALSE, ignored |-> FALSE, hidden |-> FALSE,
   manually_hidden |-> FALSE, dialog |-> NoDialog]

find_snap(s, name) == name \in DOMAIN s

add_snap(s, name) == IF find_snap(s, name) THEN s ELSE s @@ (name :> NewSnap)

Without(f, k) == [x \in DOMAIN f \ {k} |-> f[x]]

\* m is the part of the monitor a handler works on:
\* [snaps, container, main_window, inflight, events, completions, ignoreReq,
\*  leaked]
remove_dialog(m, dialog) ==
  IF dialog = NoDialog THEN m
  ELSE IF dialog \notin m.container THEN m
  ELSE LET rest == m.container \ {dialog}
       IN [m EXCEPT !.container = rest,
                    !.main_window = IF rest = {} THEN FALSE ELSE m.main_window]

remove_snap_keeping_record(m, name) ==
  remove_dialog(m, m.snaps[name].dialog)

remove_snap(m, name) ==
  LET m1 == remove_dialog(m, m.snaps[name].dialog)
  IN [m1 EXCEPT !.snaps = Without(m1.snaps, name),
                !.ignoreReq[name] = IF @ = "yes" THEN "dropped" ELSE @]

add_dialog_to_main_window(m, dialog) ==
  [m EXCEPT !.main_window = TRUE, !.container = @ \cup {dialog}]

\* a dialog widget: <<app name, visible name, instance>>; a new widget is
\* distinct from every widget that is displayed or bound
DialogsInUse(m) ==
  (m.container \cup {m.snaps[n].dialog : n \in DOMAIN m.snaps}) \ {NoDialog}

sdi_refresh_dialog_new(m, app, visible) ==
  LET free == {k \in 1..(Cardinality(DialogsInUse(m)) + 1) :
                 \A d \in DialogsInUse(m) : d[3] # k}
  IN <<app, visible, CHOOSE k \in free : \A j \in free : k <= j>>

Emit(m, e) == [m EXCEPT !.events = Append(@, e)]
Issue(m, r) == [m EXCEPT !.inflight[r] = @ + 1]


\* ------------------------------------------------------ dialog life cycle
\* begin_application_refresh without its `dialog == NULL` check
DialogMissing_Unchecked(m, name) == TRUE

\* `if (dialog == NULL)` of begin_application_refresh, both branches
DialogMissing(m, name) == m.snaps[name].dialog = NoDialog

\* begin_application_refresh returning on every error, not only a cancelled one
begin_application_refresh_ok_only(m, name, res, visible) ==
  IF res # "ok" THEN m
  ELSE LET m1 == [m EXCEPT !.snaps = add_snap(@, name)]
       IN IF DialogMissing(m1, name)
          THEN LET dialog == sdi_refresh_dialog_new(m1, name, visible)
                   m2 == add_dialog_to_main_window(m1, dialog)
               IN [m2 EXCEPT !.snaps[name].dialog = dialog]
          ELSE m1

begin_application_refresh(m, name, res, visible) ==
  IF res = "cancelled" THEN m
  ELSE LET m1 == [m EXCEPT !.snaps = add_snap(@, name)]
           \* generic data on failure: the snap name is key and visible name
           shown == IF res = "ok" THEN visible ELSE name
       IN IF DialogMissing(m1, name)
          THEN LET dialog == sdi_refresh_dialog_new(m1, name, shown)
                   m2 == add_dialog_to_main_window(m1, dialog)
               IN [m2 EXCEPT !.snaps[name].dialog = dialog]
          ELSE m1

show_snap_completed(m, name, res) ==
  IF res = "cancelled" THEN m
  ELSE IF res = "ok" THEN Emit(m, RefreshComplete(name, NULL))
  ELSE Emit(m, RefreshComplete(NULL, name))

close_dialog_cb(m, dialog) ==
  LET name == dialog[1]
      m1 == IF find_snap(m.snaps, name)
            THEN [m EXCEPT !.snaps[name].manually_hidden = TRUE] ELSE m
      m2 == remove_dialog(m1, dialog)
  IN IF find_snap(m2.snaps, name)
     THEN [m2 EXCEPT !.snaps[name].dialog = NoDialog] ELSE m2

\* ------------------------------------------------------------ task status
\* only "Done" taken as terminal
status_is_done_strict(status) == status = "Done"

status_is_done(status) ==
  status \in {"Done", "Abort", "Error", "Hold", "Wait", "Undone"}

cancelled_change_status(status) ==
  status \in {"Undoing", "Undone", "Undo", "Error"}

\* every status taken as a valid working status
valid_working_change_status_any(status) == TRUE

valid_working_change_status(status) == status \in {"Do", "Doing", "Done"}

\* tasks of a change: task i has summary Summary(i)
Summary(i) == IF i = 1 THEN "task-1" ELSE IF i = 2 THEN "task-2" ELSE "task-n"

TasksDone(tasks) ==
  Cardinality({i \in DOMAIN tasks : status_is_done(tasks[i].status)})

\* index of the first task that is "Doing", 0 when there is none
CurrentTask(tasks) ==
  LET doing == {i \in DOMAIN tasks :
                  ~status_is_done(tasks[i].status) /\ tasks[i].status = "Doing"}
  IN IF doing = {} THEN 0 ELSE CHOOSE i \in doing : \A j \in doing : i <= j

\* ------------------------------------------ inhibited-package reconciliation
\* the completion query issued for every retired package
CompletionQueried_Always(done, cancelled) == done \/ cancelled

\* `if (done)` guarding the completion query
CompletionQueried(done, cancelled) == done

\* the done/cancelled branch of the loop: the SnapRefreshData allocated there
\* is handed to the completion query, or to nobody
retire_snap(m, name, done, cancelled) ==
  LET m1 == remove_snap(m, name)
  IN IF CompletionQueried(done, cancelled)
     THEN [Issue(m1, GetSnapCompleted(name)) EXCEPT
             !.completions[name] = IF @ < 2 THEN @ + 1 ELSE @]
     ELSE [m1 EXCEPT !.leaked = TRUE]

\* one iteration of the loop over the change's snap names
update_inhibited_snap(m, change, name, done, cancelled) ==
  IF ~find_snap(m.snaps, name) THEN m
  ELSE IF ~m.snaps[name].inhibited THEN m
  ELSE IF done \/ cancelled THEN retire_snap(m, name, done, cancelled)
  ELSE IF m.snaps[name].hidden \/ m.snaps[name].manually_hidden THEN m
  ELSE IF m.snaps[name].dialog = NoDialog
  THEN Issue([m EXCEPT !.snaps[name].ignored = TRUE], GetSnapBegin(name))
  ELSE LET current == CurrentTask(change.tasks)
       IN IF current # 0
          THEN Emit(m, DialogProgress(m.snaps[name].dialog[1], Summary(current),
                                      TasksDone(change.tasks), Len(change.tasks)))
          ELSE m

RECURSIVE update_inhibited_from(_, _, _, _, _)
update_inhibited_from(m, change, i, done, cancelled) ==
  IF i > Len(change.snap_names) THEN m
  ELSE update_inhibited_from(
         update_inhibited_snap(m, change, change.snap_names[i], done, cancelled),
         change, i + 1, done, cancelled)

\* change.snap_names is <<>> when the change carries no auto-refresh data
update_inhibited_snaps(m, change, done, cancelled) ==
  update_inhibited_from(m, change, 1, done, cancelled)


\* -------------------------------------------------------- progress entries
RECURSIVE GCD(_, _)
GCD(a, b) == IF b = 0 THEN a ELSE GCD(b, a % b)

\* done_tasks / total_tasks as a gdouble: two quotients of small counters are
\* the same double exactly when the reduced fractions are equal
Progress(done_tasks, total_tasks) ==
  LET g == GCD(done_tasks, total_tasks)
  IN <<done_tasks \div g, total_tasks \div g>>

\* old_progress = -1
NoProgress == <<-1, 1>>

\* get_desktop_filenames_for_snap: the desktop files installed for a snap
DesktopFiles(name) == IF name = "A" THEN <<"A_app.desktop">> ELSE <<>>

new_progress_task_data(name) ==
  [total_tasks |-> 0, done_tasks |-> 0, old_progress |-> NoProgress,
   done |-> FALSE, desktop_files |-> DesktopFiles(name)]

\* the change's (task, affected snap) pairs in the order of the two loops
RECURSIVE AffectedFrom(_, _)
AffectedFrom(tasks, i) ==
  IF i > Len(tasks) THEN <<>>
  ELSE [j \in 1..Len(tasks[i].affected) |->
          [task_done |-> status_is_done(tasks[i].status),
           snap |-> tasks[i].affected[j]]]
       \o AffectedFrom(tasks, i + 1)

count_task(rf, x) ==
  LET rf1 == IF x.snap \in DOMAIN rf THEN rf
             ELSE rf @@ (x.snap :> new_progress_task_data(x.snap))
  IN [rf1 EXCEPT ![x.snap].total_tasks = @ + 1,
                 ![x.snap].done = x.task_done,
                 ![x.snap].done_tasks = IF x.task_done THEN @ + 1 ELSE @]

RECURSIVE count_tasks(_, _, _)
count_tasks(rf, pairs, i) ==
  IF i > Len(pairs) THEN rf
  ELSE count_tasks(count_task(rf, pairs[i]), pairs, i + 1)

\* the suppression test without the terminal flag
Suppressed_IgnoringDone(entry, progress) == progress = entry.old_progress

\* `(progress == old_progress) && !done`
Suppressed(entry, progress) == progress = entry.old_progress /\ ~entry.done

\* update_dock_bar without the reset of the two counters
update_dock_bar_cumulative(entry) ==
  IF entry.total_tasks = 0 THEN entry
  ELSE LET progress == Progress(entry.done_tasks, entry.total_tasks)
       IN IF Suppressed(entry, progress) THEN entry
          ELSE [entry EXCEPT !.old_progress = progress]

\* update_dock_bar: the entry afterwards
update_dock_bar(entry) ==
  IF entry.total_tasks = 0 THEN entry
  ELSE LET progress == Progress(entry.done_tasks, entry.total_tasks)
           reset == [entry EXCEPT !.done_tasks = 0, !.total_tasks = 0]
       IN IF Suppressed(entry, progress) THEN reset
          ELSE [reset EXCEPT !.old_progress = progress]

\* update_dock_bar: the launcher updates it emits
dock_bar_updates(entry) ==
  IF entry.total_tasks = 0 THEN <<>>
  ELSE LET progress == Progress(entry.done_tasks, entry.total_tasks)
       IN IF Suppressed(entry, progress) THEN <<>>
          ELSE [i \in 1..Len(entry.desktop_files) |->
                  LauncherUpdate(entry.desktop_files[i], progress, ~entry.done)]

\* g_hash_table_foreach visits the entries in some fixed order
RECURSIVE SetToSeq(_)
SetToSeq(S) ==
  IF S = {} THEN <<>>
  ELSE LET x == CHOOSE y \in S : TRUE IN <<x>> \o SetToSeq(S \ {x})

RECURSIVE dock_updates_from(_, _, _)
dock_updates_from(rf, names, i) ==
  IF i > Len(names) THEN <<>>
  ELSE dock_bar_updates(rf[names[i]]) \o dock_updates_from(rf, names, i + 1)

\* `if (done || cancelled)`: the snaps deleted after the emission pass
SnapsToRemove(pairs, done, cancelled) ==
  IF done \/ cancelled THEN {pairs[i].snap : i \in DOMAIN pairs} ELSE {}

\* update_dock_snaps: [list |-> the table afterwards, updates |-> emissions]
update_dock_snaps(rf, change, done, cancelled) ==
  LET pairs == AffectedFrom(change.tasks, 1)
      counted == count_tasks(rf, pairs, 1)
      updates == dock_updates_from(counted, SetToSeq(DOMAIN counted), 1)
      shown == [n \in DOMAIN counted |-> update_dock_bar(counted[n])]
      gone == SnapsToRemove(pairs, done, cancelled)
  IN [list |-> [n \in DOMAIN shown \ gone |-> shown[n]], updates |-> updates]

\* ----------------------------------------------------- refresh-inhibit path
\* t: whether the time left is within the "show remaining time" threshold and
\* within the "alert" threshold
notify_check_forced_refresh(m, name, t) ==
  IF t.remaining /\ ~m.snaps[name].ignored
  THEN Emit(m, PendingRefreshForced(name, TRUE))
  ELSE IF t.alert THEN Emit(m, PendingRefreshForced(name, FALSE))
  ELSE m

\* every listed package counted, ignored or not
CountsForPrompt_Always(snap) == TRUE

\* `if (!sdi_snap_get_ignored(snap_data))`
CountsForPrompt(snap) == ~snap.ignored

\* the loop of manage_refresh_inhibit over the returned snaps;
\* r = [m, show_grouped_notification]
RECURSIVE inhibit_from(_, _, _, _)
inhibit_from(r, list, times, i) ==
  IF i > Len(list) THEN r
  ELSE LET name == list[i]
           m1 == [r.m EXCEPT !.snaps = add_snap(@, name)]
           m2 == [m1 EXCEPT !.snaps[name].inhibited = TRUE,
                            !.completions[name] = 0]
           show == r.show \/ CountsForPrompt(m2.snaps[name])
       IN inhibit_from([m |-> notify_check_forced_refresh(m2, name, times[i]),
                        show |-> show], list, times, i + 1)

manage_refresh_inhibit(m, list, times) ==
  IF Len(list) = 0 THEN m
  ELSE LET r == inhibit_from([m |-> m, show |-> FALSE], list, times, 1)
       IN IF r.show THEN Emit(r.m, PendingRefresh(list)) ELSE r.m


\* ------------------------------------------------------------------- Init
\* configure_snapd_monitor: a new monitor object with both handlers connected
NewMonitor == [started |-> FALSE, notice |-> 1, error |-> 1]

FreeMonitorId(ms) ==
  CHOOSE k \in 1..(Cardinality(DOMAIN ms) + 1) : k \notin DOMAIN ms

NoFunction == [x \in {} |-> x]

\* the state sdi_refresh_monitor_new leaves: empty tables, a configured
\* monitor that is not started yet
Init ==
  /\ snaps = NoFunction
  /\ container = {}
  /\ main_window = FALSE
  /\ changes = {}
  /\ timers = [id \in ChangeIds |-> 0]
  /\ refreshing = NoFunction
  /\ inflight = [r \in Requests |-> 0]
  /\ monitors = (1 :> NewMonitor)
  /\ snapd_monitor = 1
  /\ reconnect = 0
  /\ life = "live"
  /\ handler = Ran("sdi_refresh_monitor_init", NULL, NULL, FALSE)
  /\ events = <<>>
  /\ completions = [p \in Pkgs |-> 0]
  /\ ignoreReq = [p \in Pkgs |-> "no"]
  /\ leaked = FALSE
  /\ observed = [id \in ChangeIds |-> "none"]

\* ---------------------------------------------------------------- actions
M ==
  [snaps |-> snaps, container |-> container, main_window |-> main_window,
   inflight |-> inflight, events |-> <<>>, completions |-> completions,
   ignoreReq |-> ignoreReq, leaked |-> leaked]

Commit(m) ==
  /\ Outstanding(m.inflight) <= MaxInflight
  /\ snaps' = m.snaps
  /\ container' = m.container
  /\ main_window' = m.main_window
  /\ inflight' = m.inflight
  /\ events' = m.events
  /\ completions' = m.completions
  /\ ignoreReq' = m.ignoreReq
  /\ leaked' = m.leaked

Consume(m, r) == [m EXCEPT !.inflight[r] = @ - 1]

\* what a status means to manage_change_update: "working" (Do, Doing: to
\* be polled), "terminal" (Done or cancelled), "other" (the update is dropped)
StatusClass(status) ==
  IF status = "Done" \/ cancelled_change_status(status) THEN "terminal"
  ELSE IF valid_working_change_status(status) THEN "working"
  ELSE "other"

\* the scheduling rule without the look-up in self->changes
ArmsTimer_Unguarded(done, cancelled, pending, id) == ~done /\ ~cancelled

\* the scheduling block without its `!done && !cancelled`
ArmsTimer_AlsoTerminal(done, cancelled, pending, id) == id \notin pending

\* the scheduling block left out
ArmsTimer_Never(done, cancelled, pending, id) == FALSE

\* `!done && !cancelled && !g_hash_table_contains(self->changes, change_id)`
ArmsTimer(done, cancelled, pending, id) ==
  ~done /\ ~cancelled /\ id \notin pending

\* inhibited-package reconciliation run for a change of any kind
ReconcilesInhibited_AnyKind(kind) == TRUE

\* `g_str_equal(snapd_change_get_kind(change), "auto-refresh")`
ReconcilesInhibited(kind) == kind = "auto-refresh"

\* the completion callback of snapd_client_get_change_async; the snap names
\* are those the daemon lists in the data of the change, whatever its kind
ManageChangeUpdate(E) ==
  \E id \in ChangeIds, res \in E.results :
    /\ life = "live"
    /\ inflight[GetChange(id)] > 0
    /\ \E status \in (IF res = "ok" THEN E.statuses ELSE {res}),
          names \in (IF res = "ok" THEN E.snapNames ELSE {<<>>}),
          tasks \in (IF res = "ok" THEN E.taskLists ELSE {<<>>}) :
         LET change == [id |-> id, kind |-> ChangeKind(id), status |-> status,
                        snap_names |-> names, tasks |-> tasks]
             m0 == Consume(M, GetChange(id))
             done == status = "Done"
             cancelled == cancelled_change_status(status)
             valid_do == valid_working_change_status(status)
             proceed == res = "ok" /\ (valid_do \/ cancelled)
             m1 == IF proceed /\ ReconcilesInhibited(change.kind)
                   THEN update_inhibited_snaps(m0, change, done, cancelled)
                   ELSE m0
             dock == IF proceed
                     THEN update_dock_snaps(refreshing, change, done, cancelled)
                     ELSE [list |-> refreshing, updates |-> <<>>]
             arm == proceed /\ ArmsTimer(done, cancelled, changes, id)
         IN /\ Commit([m1 EXCEPT !.events = @ \o dock.updates])
            /\ refreshing' = dock.list
            /\ changes' = IF arm THEN changes \cup {id} ELSE changes
            /\ timers' = IF arm THEN [timers EXCEPT ![id] = IF @ < 2 THEN @ + 1 ELSE @]
                         ELSE timers
            /\ handler' = RanFull("manage_change_update", id, status,
                                   id \in changes, names, tasks)
            /\ observed' = IF res = "ok"
                           THEN [observed EXCEPT ![id] = StatusClass(status)]
                           ELSE observed
            /\ UNCHANGED <<monitors, snapd_monitor, reconnect, life>>

\* refresh_change without g_hash_table_remove
refresh_change_keeping_id(pending, id) == pending

\* refresh_change: the table afterwards
refresh_change(pending, id) == pending \ {id}

\* the poll timer of a change fires
RefreshChange ==
  \E id \in ChangeIds :
    /\ life = "live"
    /\ timers[id] > 0
    /\ timers' = [timers EXCEPT ![id] = @ - 1]
    /\ changes' = refresh_change(changes, id)
    /\ Commit(Issue(M, GetChange(id)))
    /\ handler' = Ran("refresh_change", id, NULL, FALSE)
    /\ UNCHANGED <<observed, refreshing, monitors, snapd_monitor, reconnect, life>>

\* the completion callback of snapd_client_get_snaps_async
ManageRefreshInhibit(E) ==
  \E res \in E.results :
    /\ life = "live"
    /\ inflight[GetSnaps] > 0
    /\ \E list \in (IF res = "ok" THEN E.inhibitLists ELSE {<<>>}) :
         \E times \in [1..Len(list) -> E.times] :
           LET m0 == Consume(M, GetSnaps)
           IN /\ Commit(IF res = "ok" THEN manage_refresh_inhibit(m0, list, times)
                        ELSE m0)
              /\ handler' = RanWith("manage_refresh_inhibit", NULL, res, FALSE, list)
              /\ UNCHANGED <<observed, changes, timers, refreshing, monitors, snapd_monitor,
                             reconnect, life>>

\* the completion callback of the package query issued for a dialog
BeginApplicationRefresh(E) ==
  \E name \in Pkgs, res \in E.results :
    /\ life = "live"
    /\ inflight[GetSnapBegin(name)] > 0
    /\ \E visible \in (IF res = "ok" THEN E.visibleNames[name] ELSE {name}) :
         /\ Commit(begin_application_refresh(Consume(M, GetSnapBegin(name)),
                                             name, res, visible))
         /\ handler' = Ran("begin_application_refresh", name, res,
                            find_snap(snaps, name) /\ ~DialogMissing(M, name))
         /\ UNCHANGED <<observed, changes, timers, refreshing, monitors, snapd_monitor,
                        reconnect, life>>

\* the completion callback of the package query issued for a done change
ShowSnapCompleted(E) ==
  \E name \in Pkgs, res \in E.results :
    /\ life = "live"
    /\ inflight[GetSnapCompleted(name)] > 0
    /\ Commit(show_snap_completed(Consume(M, GetSnapCompleted(name)), name, res))
    /\ handler' = Ran("show_snap_completed", name, res, FALSE)
    /\ UNCHANGED <<observed, changes, timers, refreshing, monitors, snapd_monitor,
                   reconnect, life>>

\* the user hides a displayed dialog ("hide-event")
CloseDialog ==
  \E dialog \in container :
    /\ life = "live"
    /\ Commit(close_dialog_cb(M, dialog))
    /\ handler' = Ran("close_dialog_cb", dialog[1], NULL, FALSE)
    /\ UNCHANGED <<observed, changes, timers, refreshing, monitors, snapd_monitor,
                   reconnect, life>>

\* the record is created but not marked
ignore_snap_cb_unmarked(m, name) == [m EXCEPT !.snaps = add_snap(@, name)]

sdi_refresh_monitor_ignore_snap_cb(m, name) ==
  [m EXCEPT !.snaps = [add_snap(@, name) EXCEPT ![name].ignored = TRUE]]

\* the user pressed "Don't remind me anymore" for a snap
IgnoreSnap(E) ==
  \E name \in E.pkgs :
    /\ life = "live"
    /\ Commit([sdi_refresh_monitor_ignore_snap_cb(M, name) EXCEPT
                 !.ignoreReq[name] = "yes"])
    /\ handler' = Ran("sdi_refresh_monitor_ignore_snap_cb", name, NULL, FALSE)
    /\ UNCHANGED <<observed, changes, timers, refreshing, monitors, snapd_monitor,
                   reconnect, life>>


\* ------------------------------------------------------- notice dispatcher
\* a callback holding a bare pointer to the monitor runs normally on the live
\* object; on the released object it faults or runs on the stale memory
StaleOutcomes == IF life = "disposed" THEN {"runs", "faults"} ELSE {"runs"}

\* the change-update case without the first-run check
FetchesChange_AnyRun(kind, first_run) ==
  kind \in {"auto-refresh", "refresh-snap"}

\* the change-update case of notice_cb: whether the change is fetched
FetchesChange(kind, first_run) ==
  ~first_run /\ kind \in {"auto-refresh", "refresh-snap"}

notice_cb(m, type, kind, key, first_run) ==
  IF type = "change-update"
  THEN IF FetchesChange(kind, first_run) THEN Issue(m, GetChange(key)) ELSE m
  ELSE IF type = "refresh-inhibit" THEN Issue(m, GetSnaps)
  ELSE m

\* a started monitor with the notice handler connected emits "notice-event".
\* After dispose self->client is NULL and no request is issued
NoticeEvent(E) ==
  \E mon \in DOMAIN monitors, type \in E.noticeTypes, first_run \in E.firstRuns :
    \E key \in (IF type = "change-update" THEN E.keys ELSE {NULL}),
       outcome \in StaleOutcomes :
      /\ life \in {"live", "disposed"}
      /\ monitors[mon].started
      /\ monitors[mon].notice > 0
      /\ Commit(IF life = "live"
                THEN notice_cb(M, type, IF key = NULL THEN NULL ELSE ChangeKind(key),
                               key, first_run) ELSE M)
      /\ life' = IF outcome = "runs" THEN life ELSE "crashed"
      /\ handler' = Ran("notice_cb", key, type, first_run)
      /\ UNCHANGED <<observed, changes, timers, refreshing, monitors, snapd_monitor,
                     reconnect>>

\* --------------------------------------------------- connection supervisor
Dec(n) == IF n > 0 THEN n - 1 ELSE 0

\* the two g_signal_handler_disconnect calls on self->snapd_monitor
disconnect_handlers(c) ==
  IF c.snapd_monitor = 0 THEN c
  ELSE [c EXCEPT !.monitors[c.snapd_monitor].notice = Dec(@),
                 !.monitors[c.snapd_monitor].error = Dec(@)]

\* g_clear_object(&self->snapd_monitor): the last reference is dropped
clear_snapd_monitor(c) ==
  IF c.snapd_monitor = 0 THEN c
  ELSE [monitors |-> Without(c.monitors, c.snapd_monitor), snapd_monitor |-> 0]

\* c = [monitors, snapd_monitor]
configure_snapd_monitor(c) ==
  LET id == FreeMonitorId(c.monitors)
  IN [monitors |-> c.monitors @@ (id :> NewMonitor), snapd_monitor |-> id]

\* snapd_notices_monitor_start: rejects NULL, fails on a running monitor
snapd_notices_monitor_start(c) ==
  IF c.snapd_monitor = 0 THEN c
  ELSE [c EXCEPT !.monitors[c.snapd_monitor].started = TRUE]

\* snapd_notices_monitor_stop
snapd_notices_monitor_stop(c) ==
  IF c.snapd_monitor = 0 THEN c
  ELSE [c EXCEPT !.monitors[c.snapd_monitor].started = FALSE]

launch_snapd_monitor_after_error(c) ==
  snapd_notices_monitor_start(configure_snapd_monitor(c))

\* error_cb that keeps the failed monitor
error_cb_keeping_monitor(c) == disconnect_handlers(c)

\* a start that sets the subscription up again
start_reconfiguring(c) == launch_snapd_monitor_after_error(c)

sdi_refresh_monitor_start(c) == snapd_notices_monitor_start(c)

\* the part of error_cb before the timer is added
error_cb(c) == clear_snapd_monitor(disconnect_handlers(c))

C == [monitors |-> monitors, snapd_monitor |-> snapd_monitor]

Quiet(op) ==
  /\ handler' = Ran(op, NULL, NULL, FALSE)
  /\ events' = <<>>

\* the public entry point; the record of the call tells whether the monitor
\* was running and whether there was one
Start ==
  /\ life = "live"
  /\ LET c == sdi_refresh_monitor_start(C)
     IN monitors' = c.monitors /\ snapd_monitor' = c.snapd_monitor
  /\ handler' = Ran("sdi_refresh_monitor_start", NULL,
                     IF snapd_monitor = 0 THEN "no-monitor" ELSE "monitor",
                     snapd_monitor # 0 /\ monitors[snapd_monitor].started)
  /\ events' = <<>>
  /\ UNCHANGED <<observed, snaps, container, main_window, changes, timers, refreshing,
                 inflight, reconnect, life, completions, ignoreReq, leaked>>

\* a started monitor with the error handler connected emits "error-event"
ErrorEvent ==
  \E mon \in DOMAIN monitors, outcome \in StaleOutcomes :
    /\ life \in {"live", "disposed"}
    /\ monitors[mon].started
    /\ monitors[mon].error > 0
    /\ LET c == IF outcome = "runs" THEN error_cb(C) ELSE C
       IN monitors' = c.monitors /\ snapd_monitor' = c.snapd_monitor
    /\ reconnect' = IF outcome = "runs" /\ reconnect < 2 THEN reconnect + 1
                    ELSE reconnect
    /\ life' = IF outcome = "runs" THEN life ELSE "crashed"
    /\ Quiet("error_cb")
    /\ UNCHANGED <<observed, snaps, container, main_window, changes, timers, refreshing,
                   inflight, completions, ignoreReq, leaked>>

\* the reconnect timer fires.  It holds a bare pointer to the monitor: after
\* dispose the object may have been freed, and the callback either faults or
\* runs on the stale object
LaunchAfterError ==
  \E outcome \in StaleOutcomes :
    /\ life \in {"live", "disposed"}
    /\ reconnect > 0
    /\ reconnect' = reconnect - 1
    /\ LET c == IF outcome = "runs" THEN launch_snapd_monitor_after_error(C) ELSE C
       IN monitors' = c.monitors /\ snapd_monitor' = c.snapd_monitor
    /\ life' = IF outcome = "runs" THEN life ELSE "crashed"
    /\ Quiet("launch_snapd_monitor_after_error")
    /\ UNCHANGED <<observed, snaps, container, main_window, changes, timers, refreshing,
                   inflight, completions, ignoreReq, leaked>>

\* every outstanding request and every poll timer holds a reference to the
\* monitor (g_object_ref in snap_refresh_data_new and at each *_async call);
\* the reconnect timer and the signal handlers hold a bare pointer
References ==
  Outstanding(inflight) + SumOver(timers, ChangeIds) + (IF leaked THEN 1 ELSE 0)

\* sdi_refresh_monitor_dispose, run when the last reference is dropped.
\* No GLib source is removed
Dispose ==
  /\ life = "live"
  /\ References = 0
  /\ LET c == clear_snapd_monitor(disconnect_handlers(snapd_notices_monitor_stop(C)))
     IN monitors' = c.monitors /\ snapd_monitor' = c.snapd_monitor
  /\ snaps' = NoFunction
  /\ changes' = {}
  /\ refreshing' = NoFunction
  /\ container' = {}
  /\ main_window' = FALSE
  /\ life' = "disposed"
  /\ ignoreReq' = [p \in Pkgs |-> IF ignoreReq[p] = "yes" THEN "dropped"
                                   ELSE ignoreReq[p]]
  /\ Quiet("sdi_refresh_monitor_dispose")
  /\ UNCHANGED <<observed, timers, inflight, reconnect, completions, leaked>>

\* ---------------------------------------------------------- specification
\* a task: its status and the snaps its data names (<<>>: no task data)
Task(status, affected) == [status |-> status, affected |-> affected]

\* the inputs of the environment: daemon answers, notices, desktop metadata
\* one package, one auto-refresh change and one change of a kind that is
\* not tracked; a status of every class; every answer of the package queries
CoreEnv ==
  [pkgs |-> {"A"},
   keys |-> {"1", "3"},
   noticeTypes |-> {"change-update", "refresh-inhibit"},
   firstRuns |-> {FALSE},
   statuses |-> {"Doing", "Done", "Undoing", "Hold"},
   snapNames |-> {<<"A">>},
   taskLists |-> {<<>>, <<Task("Done", <<>>), Task("Doing", <<>>)>>},
   results |-> AsyncResults,
   inhibitLists |-> {<<>>, <<"A">>},
   times |-> [remaining : BOOLEAN, alert : BOOLEAN],
   visibleNames |-> [p \in Pkgs |-> {p}]]

TimeFar == [remaining |-> FALSE, alert |-> FALSE]
TimeNear == [remaining |-> TRUE, alert |-> TRUE]

\* every notice type, key and first-run flag
NoticeEnv ==
  [pkgs |-> {"A"},
   keys |-> ChangeIds,
   noticeTypes |-> NoticeTypes,
   firstRuns |-> BOOLEAN,
   statuses |-> {"Doing", "Done"},
   snapNames |-> {<<"A">>},
   taskLists |-> {<<>>},
   results |-> {"ok"},
   inhibitLists |-> {<<"A">>},
   times |-> {TimeFar},
   visibleNames |-> [p \in Pkgs |-> {p}]]

\* two packages and every list of them in a refresh-inhibit result
GroupEnv ==
  [pkgs |-> Pkgs,
   keys |-> {"1"},
   noticeTypes |-> {"change-update", "refresh-inhibit"},
   firstRuns |-> {FALSE},
   statuses |-> {"Doing", "Done"},
   snapNames |-> {<<"A">>},
   taskLists |-> {<<>>},
   results |-> {"ok"},
   inhibitLists |-> PkgLists,
   times |-> {TimeFar, TimeNear},
   visibleNames |-> [p \in Pkgs |-> {p}]]

\* the connection supervisor with the least of everything else
ConnEnv ==
  [pkgs |-> {"A"},
   keys |-> {"1"},
   noticeTypes |-> {"change-update", "refresh-inhibit"},
   firstRuns |-> {FALSE},
   statuses |-> {"Doing", "Done"},
   snapNames |-> {<<"A">>},
   taskLists |-> {<<>>},
   results |-> {"ok"},
   inhibitLists |-> {<<"A">>},
   times |-> {TimeFar},
   visibleNames |-> [p \in Pkgs |-> {p}]]

\* task lists that name the snaps they affect: [Done, Doing, Do] for A,
\* two finished tasks one of which also affects B, and a failed task
\* followed by two that are Doing
ProgressEnv ==
  [pkgs |-> {"A"},
   keys |-> {"1"},
   noticeTypes |-> {"change-update", "refresh-inhibit"},
   firstRuns |-> {FALSE},
   statuses |-> {"Doing", "Done"},
   snapNames |-> {<<"A">>},
   taskLists |-> {<<Task("Done", <<"A">>), Task("Doing", <<"A">>),
                    Task("Do", <<"A">>)>>,
                  <<Task("Done", <<"A", "B">>), Task("Done", <<"A">>)>>,
                  <<Task("Error", <<>>), Task("Doing", <<"A">>),
                    Task("Doing", <<"A">>)>>},
   results |-> {"ok"},
   inhibitLists |-> {<<"A">>},
   times |-> {TimeFar},
   visibleNames |-> [p \in Pkgs |-> {p}]]

\* the package queries answer in every way, and the desktop file of a
\* package may give a display name that is not the package name
DialogEnv ==
  [pkgs |-> {"A"},
   keys |-> {"1"},
   noticeTypes |-> {"change-update", "refresh-inhibit"},
   firstRuns |-> {FALSE},
   statuses |-> {"Doing", "Done"},
   snapNames |-> {<<"A">>},
   taskLists |-> {<<>>},
   results |-> AsyncResults,
   inhibitLists |-> {<<"A">>},
   times |-> {TimeFar},
   visibleNames |-> [p \in Pkgs |-> {p, "Title"}]]

\* one polled change whose fetches answer a working, a done, a cancelled
\* and an unexpected status
PollEnv ==
  [pkgs |-> {"A"},
   keys |-> {"1"},
   noticeTypes |-> {"change-update", "refresh-inhibit"},
   firstRuns |-> {FALSE},
   statuses |-> {"Doing", "Done", "Error", "Hold"},
   snapNames |-> {<<"A">>},
   taskLists |-> {<<>>},
   results |-> {"ok"},
   inhibitLists |-> {<<"A">>},
   times |-> {TimeFar},
   visibleNames |-> [p \in Pkgs |-> {p}]]

\* two changes polled at the same time, an auto-refresh and a refresh-snap
\* one, whose tasks all affect A; a change may be reported as being undone
\* while a task is still Doing
DockEnv ==
  [pkgs |-> {"A"},
   keys |-> {"1", "2"},
   noticeTypes |-> {"change-update", "refresh-inhibit"},
   firstRuns |-> {FALSE},
   statuses |-> {"Doing", "Done", "Undoing"},
   snapNames |-> {<<"A">>},
   taskLists |-> {<<Task("Done", <<"A">>), Task("Doing", <<"A">>)>>},
   results |-> {"ok"},
   inhibitLists |-> {<<"A">>},
   times |-> {TimeFar},
   visibleNames |-> [p \in Pkgs |-> {p}]]

Next(E) ==
  \/ Start
  \/ NoticeEvent(E)
  \/ ManageChangeUpdate(E)
  \/ RefreshChange
  \/ ManageRefreshInhibit(E)
  \/ BeginApplicationRefresh(E)
  \/ ShowSnapCompleted(E)
  \/ CloseDialog
  \/ IgnoreSnap(E)
  \/ ErrorEvent
  \/ LaunchAfterError
  \/ Dispose

Spec == Init /\ [][Next(CoreEnv)]_vars

SpecNotice == Init /\ [][Next(NoticeEnv)]_vars

SpecGroup == Init /\ [][Next(GroupEnv)]_vars

SpecProgress == Init /\ [][Next(ProgressEnv)]_vars

SpecDialog == Init /\ [][Next(DialogEnv)]_vars

SpecPoll == Init /\ [][Next(PollEnv)]_vars

SpecDock == Init /\ [][Next(DockEnv)]_vars

\* the GLib main loop runs a timeout source that is due
SpecConn == Init /\ [][Next(ConnEnv)]_vars /\ WF_vars(LaunchAfterError)


\* ================================================================== claims
DialogsOf(p) == {d \in container : d[1] = p}

\* C1: every package has at most one dialog displayed, and the dialogs
\* displayed for a package are exactly the one bound to its record; a query
\* completion that finds a dialog bound creates no second one.
C1_OneDialogPerPackage ==
  \A p \in Pkgs :
    /\ Cardinality(DialogsOf(p)) <= 1
    /\ DialogsOf(p) =
         IF find_snap(snaps, p) /\ snaps[p].dialog # NoDialog
         THEN {snaps[p].dialog} ELSE {}

\* a package query resolved (not cancelled) while a dialog was already bound
C1_Witness ==
  /\ handler.op = "begin_application_refresh"
  /\ handler.arg \in {"ok", "error"}
  /\ handler.flag
  /\ Cardinality(DialogsOf(handler.key)) = 1

\* C2: at most one poll timer is pending for a change id, and a timer is
\* pending for an id exactly when the id is in self->changes.
C2_OneTimerPerChange ==
  \A id \in ChangeIds :
    /\ timers[id] <= 1
    /\ timers[id] = 1 <=> id \in changes

\* an update resolved non-terminal while a timer for its change was pending
C2_Witness ==
  /\ handler.op = "manage_change_update"
  /\ handler.arg = "Doing"
  /\ handler.flag
  /\ timers[handler.key] = 1

\* C3 (as claimed): after the change-update handler observed a done or
\* cancelled change, the change id is not in the pending set and has no
\* pending timer.
C3_TerminalIsUntracked ==
  (/\ handler.op = "manage_change_update"
   /\ (handler.arg = "Done" \/ cancelled_change_status(handler.arg)))
  => (handler.key \notin changes /\ timers[handler.key] = 0)


\* whether notice_cb, run with the inputs h records, is to fetch the change
NoticeFetches(h) ==
  /\ h.arg = "change-update"
  /\ ~h.flag
  /\ ChangeKind(h.key) \in {"auto-refresh", "refresh-snap"}

\* C4: a notice handled by the live monitor issues a change fetch exactly
\* when it is a change-update, not first-run, of kind auto-refresh or
\* refresh-snap, and then one fetch of its key; a first-run or other-kind
\* change-update, a run-inhibit notice and a notice of unknown type issue no
\* request; no notice changes the package records, the pending set, the
\* timers or the progress entries.
C4_NoticeDispatch ==
  [][(handler'.op = "notice_cb" /\ life = "live") =>
       /\ NoticeFetches(handler') <=>
            \E id \in ChangeIds : inflight'[GetChange(id)] > inflight[GetChange(id)]
       /\ NoticeFetches(handler') =>
            inflight' = [inflight EXCEPT ![GetChange(handler'.key)] = @ + 1]
       /\ (~NoticeFetches(handler') /\ handler'.arg # "refresh-inhibit") =>
            inflight' = inflight
       /\ UNCHANGED <<observed, snaps, changes, timers, refreshing, container>>]_vars

\* a first-run change-update notice for the auto-refresh change was handled
\* while records and a pending poll existed
C4_Witness ==
  /\ handler.op = "notice_cb"
  /\ handler.arg = "change-update"
  /\ handler.key = "1"
  /\ handler.flag
  /\ life = "live"
  /\ DOMAIN snaps # {}
  /\ changes # {}

PendingRefreshEvents ==
  {i \in DOMAIN events : events[i].sig = "notify-pending-refresh"}

\* C5: after a refresh-inhibited list was handled, every listed package has
\* a record marked inhibited; pendingRefresh fired once, carrying the whole
\* list, if a listed package is not ignored, and did not fire if all are
\* ignored or the list is empty.
C5_GroupPrompt ==
  (handler.op = "manage_refresh_inhibit" /\ handler.arg = "ok") =>
    /\ \A p \in Range(handler.list) : find_snap(snaps, p) /\ snaps[p].inhibited
    /\ IF \E p \in Range(handler.list) : ~snaps[p].ignored
       THEN /\ Cardinality(PendingRefreshEvents) = 1
            /\ \A i \in PendingRefreshEvents : events[i].list = handler.list
       ELSE PendingRefreshEvents = {}

\* the list [A, B] with A not ignored and B ignored: the prompt names both
C5_Witness ==
  /\ handler.op = "manage_refresh_inhibit"
  /\ handler.arg = "ok"
  /\ handler.list = <<"A", "B">>
  /\ ~snaps["A"].ignored
  /\ snaps["B"].ignored
  /\ \E i \in PendingRefreshEvents : events[i].list = <<"A", "B">>

\* a refresh-inhibit result that listed only p fired pendingRefresh
PromptedOnlyFor(p) ==
  /\ handler.op = "manage_refresh_inhibit"
  /\ \E i \in PendingRefreshEvents : events[i].list = <<p>>

\* C6 (as claimed): once ignore was requested for a package, no
\* refresh-inhibit result listing only that package fires pendingRefresh.
C6_IgnoreIsPermanent ==
  \A p \in Pkgs : PromptedOnlyFor(p) => ignoreReq[p] = "no"

\* C6 (amended): an ignore request holds as long as the package record is
\* kept: the record is then marked ignored and no refresh-inhibit result
\* listing only that package fires pendingRefresh.
C6_IgnoreWhileRecorded ==
  \A p \in Pkgs :
    /\ ignoreReq[p] = "yes" => (find_snap(snaps, p) /\ snaps[p].ignored)
    /\ PromptedOnlyFor(p) => ignoreReq[p] # "yes"

\* a refresh-inhibit result listing only A was handled after ignore was
\* requested for A, and nothing was emitted
C6_Witness ==
  /\ handler.op = "manage_refresh_inhibit"
  /\ handler.arg = "ok"
  /\ handler.list = <<"A">>
  /\ ignoreReq["A"] = "yes"
  /\ snaps["A"].inhibited
  /\ PendingRefreshEvents = {}

RefreshCompleteEvents ==
  {i \in DOMAIN events : events[i].sig = "notify-refresh-complete"}

C7_Events ==
  /\ \A i \in RefreshCompleteEvents :
       (events[i].snap = NULL) # (events[i].name = NULL)
  /\ IF handler.op = "show_snap_completed"
     THEN events = IF handler.arg = "ok"
                   THEN <<RefreshComplete(handler.key, NULL)>>
                   ELSE IF handler.arg = "error"
                   THEN <<RefreshComplete(NULL, handler.key)>>
                   ELSE <<>>
     ELSE RefreshCompleteEvents = {}

C7_Queries ==
  \A p \in Pkgs :
    inflight'[GetSnapCompleted(p)] > inflight[GetSnapCompleted(p)] =>
      (handler'.op = "manage_change_update" /\ handler'.arg = "Done")

\* C7: a refreshComplete event carries the package and no name when the
\* query succeeded, the name and no package when it failed, and is not
\* emitted when the query was cancelled; nothing else emits it; a completion
\* query is issued only by an update whose change status is Done.
C7_RefreshComplete == []C7_Events /\ [][C7_Queries]_vars

\* a completion query failed and the event carries the fallback name
C7_Witness ==
  /\ handler.op = "show_snap_completed"
  /\ handler.arg = "error"
  /\ events = <<RefreshComplete(NULL, "A")>>

\* C8: for a package, at most one completion query is issued by the Done
\* updates of the auto-refresh change since the package was last marked
\* inhibited by a refresh-inhibit result.
C8_SingleCompletion == \A p \in Pkgs : completions[p] <= 1

\* a Done update for a package whose completion query was issued, and has
\* resolved, before: this update issued none
C8_Witness ==
  /\ handler.op = "manage_change_update"
  /\ handler.arg = "Done"
  /\ completions["A"] = 1
  /\ inflight[GetSnapCompleted("A")] = 0
  /\ ~find_snap(snaps, "A")

Connected == snapd_monitor # 0 /\ monitors[snapd_monitor].started

C9_Subscriptions ==
  /\ Cardinality(DOMAIN monitors) <= 1
  /\ \A mon \in DOMAIN monitors :
       monitors[mon].notice <= 1 /\ monitors[mon].error <= 1
  /\ reconnect <= 1
  /\ reconnect > 0 => (snapd_monitor = 0 /\ DOMAIN monitors = {})
  /\ snapd_monitor # 0 => DOMAIN monitors = {snapd_monitor}

C9_Steps ==
  /\ handler'.op = "notice_cb" => (reconnect = 0 /\ Connected)
  /\ (reconnect' < reconnect /\ life' # "crashed") =>
       /\ snapd_monitor' # 0
       /\ monitors' = (snapd_monitor' :> [NewMonitor EXCEPT !.started = TRUE])

\* C9: at most one subscription exists, with at most one notice and one
\* error handler; while a reconnect is pending no subscription exists and no
\* notice is dispatched; when the reconnect timer fires a new started
\* subscription with both handlers exists; a pending reconnect of the live
\* monitor leads to the connected state unless the monitor is disposed.
C9_Reconnect ==
  /\ []C9_Subscriptions
  /\ [][C9_Steps]_vars
  /\ (reconnect > 0 /\ life = "live") ~> (Connected \/ life # "live")

\* the reconnect timer of the live monitor fired and the monitor is connected
C9_Witness ==
  /\ handler.op = "launch_snapd_monitor_after_error"
  /\ life = "live"
  /\ Connected
  /\ reconnect = 0

\* C10 (as claimed): after teardown no poll timer and no reconnect timer is
\* pending.
C10_TeardownCancelsTimers ==
  life # "live" => (reconnect = 0 /\ \A id \in ChangeIds : timers[id] = 0)

\* the fields of the monitor and its timers, requests and subscriptions
monitorState ==
  <<snaps, container, main_window, changes, timers, refreshing, inflight,
    monitors, snapd_monitor, reconnect, life, leaked>>

CountedEntries == count_tasks(refreshing, AffectedFrom(handler'.tasks, 1), 1)

\* the launcher updates the handler emitted for the targets of an entry
UpdatesOf(entry) ==
  {i \in DOMAIN events' : /\ events'[i].sig = "launcher-entry-update"
                          /\ events'[i].name \in Range(entry.desktop_files)}

\* done_tasks / total_tasks equals the fraction f = <<numerator, denominator>>
SameFraction(entry, f) == f[1] * entry.total_tasks = f[2] * entry.done_tasks

\* C12: in the pass of a change update, every progress entry with a task
\* counted gets one launcher update per desktop file, carrying the fraction
\* and the negated terminal flag, unless the fraction equals the last emitted
\* one and the entry is not terminal; a terminal entry is always updated, a
\* non-terminal entry with an unchanged fraction never; an entry with no
\* task counted gets none.
C12_DockEmission ==
  [][(/\ handler'.op = "manage_change_update"
      /\ StatusClass(handler'.arg) \in {"working", "terminal"}) =>
       \A counted \in {CountedEntries} :
         \A n \in DOMAIN counted :
           \A entry \in {counted[n]} :
             \A updates \in {UpdatesOf(entry)} :
               IF entry.total_tasks = 0 THEN updates = {}
               ELSE IF SameFraction(entry, entry.old_progress) /\ ~entry.done
               THEN updates = {}
               ELSE /\ Cardinality(updates) = Len(entry.desktop_files)
                    /\ \A f \in Range(entry.desktop_files) :
                         \E i \in updates :
                           /\ events'[i].name = f
                           /\ SameFraction(entry, events'[i].list)
                           /\ events'[i].flag = ~entry.done]_vars

\* the [Done, Doing, Do] pass ran for an entry whose last emitted fraction
\* was 1/3 already: nothing was emitted
C12_Witness ==
  /\ handler.op = "manage_change_update"
  /\ handler.arg = "Doing"
  /\ Len(handler.tasks) = 3
  /\ "A" \in DOMAIN refreshing
  /\ refreshing["A"].old_progress = <<1, 3>>
  /\ ~refreshing["A"].done
  /\ events = <<>>

\* the task statuses the specification calls terminal
TerminalTaskStatuses == {"Done", "Abort", "Error", "Hold", "Wait", "Undone"}

DoingTasks(tasks) == {i \in DOMAIN tasks : tasks[i].status = "Doing"}

\* the progress calls the handler made on the dialog of package p
ProgressOf(p) ==
  {i \in DOMAIN events' : /\ events'[i].sig = "set_n_tasks_progress"
                          /\ events'[i].snap = p}

\* the progress the claim describes: the summary of the first Doing task,
\* the number of terminal tasks, the number of tasks
ClaimedProgress(i, tasks) ==
  /\ \E d \in DoingTasks(tasks) :
       /\ \A e \in DoingTasks(tasks) : d <= e
       /\ events'[i].name = Summary(d)
  /\ events'[i].list =
       <<Cardinality({t \in DOMAIN tasks : tasks[t].status \in TerminalTaskStatuses}),
         Len(tasks)>>

\* a non-terminal update of the auto-refresh change was handled and p is a
\* listed package that was inhibited and not hidden
ShownInUpdate(p) ==
  /\ handler'.op = "manage_change_update"
  /\ ChangeKind(handler'.key) = "auto-refresh"
  /\ StatusClass(handler'.arg) = "working"
  /\ p \in Range(handler'.list)
  /\ find_snap(snaps, p)
  /\ snaps[p].inhibited
  /\ ~snaps[p].hidden /\ ~snaps[p].manually_hidden

\* C13 (as claimed): such an update with a Doing task pushes that progress
\* to the dialog of p, also when p has no dialog yet.
C13_ProgressAlways ==
  [][\A p \in Pkgs :
       (ShownInUpdate(p) /\ DoingTasks(handler'.tasks) # {}) =>
         \E i \in ProgressOf(p) : ClaimedProgress(i, handler'.tasks)]_vars

\* C13 (amended): with a dialog bound to p and a Doing task, the update
\* pushes to that dialog, once, the summary of the first Doing task, the
\* number of tasks with a terminal status and the number of tasks; with a
\* dialog bound and no Doing task it pushes nothing; with no dialog bound it
\* pushes nothing, marks p ignored and issues the package query.
C13_ProgressWhenBound ==
  [][\A p \in Pkgs :
       ShownInUpdate(p) =>
         IF snaps[p].dialog = NoDialog
         THEN /\ ProgressOf(p) = {}
              /\ snaps'[p].ignored
              /\ inflight'[GetSnapBegin(p)] = inflight[GetSnapBegin(p)] + 1
         ELSE IF DoingTasks(handler'.tasks) = {} THEN ProgressOf(p) = {}
         ELSE /\ Cardinality(ProgressOf(p)) = 1
              /\ \A i \in ProgressOf(p) : ClaimedProgress(i, handler'.tasks)]_vars

\* the [Done, Doing, Do] update pushed "task-2", 1 of 3 to the dialog of A
C13_Witness ==
  /\ handler.op = "manage_change_update"
  /\ handler.arg = "Doing"
  /\ Len(handler.tasks) = 3
  /\ handler.tasks[1].status = "Done"
  /\ \E i \in DOMAIN events :
       /\ events[i].sig = "set_n_tasks_progress"
       /\ events[i].snap = "A"
       /\ events[i].name = "task-2"
       /\ events[i].list = <<1, 3>>

C15_DismissedHasNoDialog ==
  \A p \in DOMAIN snaps :
    (snaps[p].hidden \/ snaps[p].manually_hidden) =>
      /\ snaps[p].dialog = NoDialog
      /\ DialogsOf(p) = {}

\* C16: a non-terminal auto-refresh update that lists an inhibited,
\* non-hidden package without a dialog marks it ignored and issues the
\* package query; when a package query resolves and no dialog is bound, a
\* dialog with the package name as key is created, bound and displayed, on
\* success and on a failure that is not a cancellation, and on failure its
\* display name is the package name too; a cancelled query leaves records
\* and dialogs as they were.
C16_DialogOnQuery ==
  [][\A p \in Pkgs :
       /\ (ShownInUpdate(p) /\ snaps[p].dialog = NoDialog) =>
            /\ snaps'[p].ignored
            /\ snaps'[p].dialog = NoDialog
            /\ inflight'[GetSnapBegin(p)] = inflight[GetSnapBegin(p)] + 1
       /\ (handler'.op = "begin_application_refresh" /\ handler'.key = p) =>
            IF handler'.arg = "cancelled"
            THEN snaps' = snaps /\ container' = container
            ELSE IF find_snap(snaps, p) /\ snaps[p].dialog # NoDialog
            THEN snaps' = snaps /\ container' = container
            ELSE /\ find_snap(snaps', p)
                 /\ snaps'[p].dialog # NoDialog
                 /\ snaps'[p].dialog[1] = p
                 /\ handler'.arg = "error" => snaps'[p].dialog[2] = p
                 /\ DialogsOf(p)' = DialogsOf(p) \cup {snaps'[p].dialog}
                 /\ DialogsOf(p) = {}]_vars

\* a failed package query created the dialog of A, named by the package, in
\* a run where a successful one would have shown a display name
C16_Witness ==
  /\ handler.op = "begin_application_refresh"
  /\ handler.key = "A"
  /\ handler.arg = "error"
  /\ ~handler.flag
  /\ find_snap(snaps, "A")
  /\ snaps["A"].ignored
  /\ snaps["A"].dialog # NoDialog
  /\ snaps["A"].dialog[2] = "A"

\* C17: a change update whose status is Abort, Hold or Wait (neither a valid
\* working status nor a cancelled one) leaves the package records, the
\* dialogs, the progress entries, the pending-poll set and the timers as
\* they were, emits nothing and issues no request.
C17_UnexpectedStatusDropped ==
  [][(/\ handler'.op = "manage_change_update"
      /\ handler'.arg \in {"Abort", "Hold", "Wait"}) =>
       /\ UNCHANGED <<snaps, container, main_window, refreshing, changes, timers>>
       /\ events' = <<>>
       /\ completions' = completions
       /\ inflight' = [inflight EXCEPT ![GetChange(handler'.key)] = @ - 1]]_vars

\* an update with status Hold was handled for the auto-refresh change while
\* package A was inhibited and the change was not scheduled for a poll
C17_Witness ==
  /\ handler.op = "manage_change_update"
  /\ handler.arg = "Hold"
  /\ handler.key = "1"
  /\ Range(handler.list) = {"A"}
  /\ find_snap(snaps, "A")
  /\ snaps["A"].inhibited
  /\ "1" \notin changes

\* a poll of the change is on its way: its timer is pending or a fetch of it
\* is outstanding
Polled(id) == timers[id] > 0 \/ inflight[GetChange(id)] > 0

\* C18: while every change fetch succeeds and the monitor is not torn down,
\* a change whose last observed status is Do or Doing has a poll timer
\* pending or a fetch outstanding, and a poll timer that fires issues a
\* fetch of its change, whose answer is then the last observed status.
C18_PolledUntilTerminal ==
  /\ [](\A id \in ChangeIds :
         (life = "live" /\ observed[id] = "working") => Polled(id))
  /\ [][\A id \in ChangeIds :
         /\ (handler'.op = "refresh_change" /\ handler'.key = id) =>
              inflight'[GetChange(id)] = inflight[GetChange(id)] + 1
         /\ (handler'.op = "manage_change_update" /\ handler'.key = id
              /\ handler'.arg \in {"Done", "Undoing", "Undone", "Undo", "Error"}) =>
              observed'[id] = "terminal"]_vars

\* the poll of a change last seen Doing fetched it again and the fetch
\* answered Done
C18_Witness ==
  /\ handler.op = "manage_change_update"
  /\ handler.arg = "Done"
  /\ ~handler.flag
  /\ observed[handler.key] = "terminal"
  /\ ~Polled(handler.key)
  /\ life = "live"

\* C19: a change fetch that fails, as cancelled or otherwise, leaves the
\* package records, dialogs, progress entries, pending-poll set and timers
\* as they were and emits nothing, and after a failure that is not a
\* cancellation a change last seen Do or Doing still has a poll timer
\* pending or a fetch outstanding.
C19_FailedFetchKeepsPolling ==
  [][(/\ handler'.op = "manage_change_update"
      /\ handler'.arg \in {"error", "cancelled"}) =>
       /\ UNCHANGED <<snaps, container, main_window, refreshing, changes, timers>>
       /\ events' = <<>>
       /\ (handler'.arg = "error" /\ observed'[handler'.key] = "working") =>
            \/ timers'[handler'.key] > 0
            \/ inflight'[GetChange(handler'.key)] > 0]_vars

\* C20: when the poll timer of a change fires, the change is no longer in
\* the pending set once its fetch is outstanding; an update of a change that
\* resolves Do or Doing arms a timer and enters the change in the pending
\* set when the change is not in it, and arms nothing when it is; so a
\* change never has two timers pending.
C20_RemovalGate ==
  [][\A id \in ChangeIds :
       /\ (handler'.op = "refresh_change" /\ handler'.key = id) =>
            /\ id \notin changes'
            /\ timers'[id] = timers[id] - 1
            /\ inflight'[GetChange(id)] = inflight[GetChange(id)] + 1
       /\ (/\ handler'.op = "manage_change_update"
           /\ handler'.key = id
           /\ handler'.arg \in {"Do", "Doing"}) =>
            IF id \in changes
            THEN timers' = timers /\ changes' = changes
            ELSE /\ timers' = [timers EXCEPT ![id] = 1]
                 /\ changes' = changes \cup {id}
       /\ timers'[id] <= 1]_vars

\* an update resolved Doing while the change was not in the pending set
\* and another fetch of the change was outstanding: a timer is armed and
\* the other fetch is still to resolve
C20_Witness ==
  /\ handler.op = "manage_change_update"
  /\ handler.arg = "Doing"
  /\ ~handler.flag
  /\ handler.key \in changes
  /\ timers[handler.key] = 1
  /\ inflight[GetChange(handler.key)] > 0

\* a step that is neither a change-update notice for the change nor an
\* answer for it with a status other than Done, Undone, Error, Abort, Hold
\* or Wait
QuietStep(id) ==
  /\ ~(handler'.op = "notice_cb" /\ handler'.key = id)
  /\ (handler'.op = "manage_change_update" /\ handler'.key = id) =>
       handler'.arg \in {"Done", "Undone", "Error", "Abort", "Hold", "Wait"}

\* nothing polls the change any more
Settled(id) ==
  /\ timers[id] = 0
  /\ inflight[GetChange(id)] = 0
  /\ id \notin changes

\* the polling steps the change still has to take at most: each pending
\* timer fires and issues a fetch, each outstanding fetch is answered
PollsLeft(id) == 2 * timers[id] + inflight[GetChange(id)]

\* C21: once every answer for a change carries a terminal status and no
\* notice for it arrives, polling of the change runs out: no step raises the
\* number of polling steps left, every timer fire and every answer for the
\* change lowers it, and when none is left the change has no timer pending,
\* no fetch outstanding and is not in the pending set.
C21_PollingTerminates ==
  /\ [](\A id \in ChangeIds : PollsLeft(id) = 0 => Settled(id))
  /\ [][\A id \in ChangeIds :
         QuietStep(id) =>
           /\ PollsLeft(id)' <= PollsLeft(id)
           /\ (/\ handler'.op \in {"manage_change_update", "refresh_change"}
               /\ handler'.key = id) => PollsLeft(id)' < PollsLeft(id)]_vars

\* a fetch answered Done while the change was in the pending set with its
\* timer still to fire
C21_Witness ==
  /\ handler.op = "manage_change_update"
  /\ handler.arg = "Done"
  /\ handler.flag
  /\ handler.key \in changes
  /\ timers[handler.key] > 0

\* the package queries outstanding for p
QueriesOf(p) == <<inflight[GetSnapBegin(p)], inflight[GetSnapCompleted(p)]>>

\* C22: an update of a refresh-snap change leaves every package record,
\* every dialog and every package query as they were and emits nothing to
\* a dialog; an update of the auto-refresh change leaves a listed package
\* that has no record, or whose record is not inhibited, with its record,
\* dialogs and queries as they were and emits nothing for it.
C22_OnlyAutoRefreshReconciles ==
  [][(handler'.op = "manage_change_update") =>
       /\ ChangeKind(handler'.key) = "refresh-snap" =>
            /\ UNCHANGED <<snaps, container, main_window, completions, leaked>>
            /\ \A p \in Pkgs : QueriesOf(p)' = QueriesOf(p)
            /\ \A i \in DOMAIN events' : events'[i].sig = "launcher-entry-update"
       /\ ChangeKind(handler'.key) = "auto-refresh" =>
            \A p \in Range(handler'.list) :
              (~find_snap(snaps, p) \/ ~snaps[p].inhibited) =>
                /\ find_snap(snaps', p) = find_snap(snaps, p)
                /\ find_snap(snaps, p) => snaps'[p] = snaps[p]
                /\ DialogsOf(p)' = DialogsOf(p)
                /\ QueriesOf(p)' = QueriesOf(p)
                /\ completions'[p] = completions[p]
                /\ ProgressOf(p) = {}]_vars

\* a refresh-snap change that lists A was handled as Done while A was
\* inhibited with its dialog displayed
C22_Witness ==
  /\ handler.op = "manage_change_update"
  /\ ChangeKind(handler.key) = "refresh-snap"
  /\ handler.arg = "Done"
  /\ "A" \in Range(handler.list)
  /\ find_snap(snaps, "A")
  /\ snaps["A"].inhibited
  /\ snaps["A"].dialog # NoDialog
  /\ DialogsOf("A") # {}

\* the tasks of a task list that affect package p, and those of them with a
\* terminal status
Affecting(tasks, p) == {i \in DOMAIN tasks : p \in Range(tasks[i].affected)}

TerminalAffecting(tasks, p) ==
  {i \in Affecting(tasks, p) : tasks[i].status \in TerminalTaskStatuses}

LastAffecting(tasks, p) ==
  CHOOSE i \in Affecting(tasks, p) : \A j \in Affecting(tasks, p) : j <= i

\* the launcher updates the handler emitted to the desktop files of p
LauncherUpdatesOf(p) ==
  {i \in DOMAIN events' : /\ events'[i].sig = "launcher-entry-update"
                          /\ events'[i].name \in Range(DesktopFiles(p))}

\* fraction f = <<numerator, denominator>> is done / total
IsFraction(f, done, total) == f[1] * total = f[2] * done

\* C23: between callbacks every progress entry has both counters at zero;
\* a pass over a change computes for each package the change affects the
\* fraction (its tasks affecting the package that are terminal) / (its
\* tasks affecting the package) and sets the terminal flag of the entry to
\* the terminality of the last such task; a package the change does not
\* affect gets no emission and its entry is left as it was.
C23_CountsPerPass ==
  /\ [](\A p \in DOMAIN refreshing :
         refreshing[p].total_tasks = 0 /\ refreshing[p].done_tasks = 0)
  /\ [][(/\ handler'.op = "manage_change_update"
          /\ StatusClass(handler'.arg) \in {"working", "terminal"}) =>
         \A p \in Pkgs :
           \A aff \in {Affecting(handler'.tasks, p)} :
             IF aff = {}
             THEN /\ LauncherUpdatesOf(p) = {}
                  /\ p \in DOMAIN refreshing' <=> p \in DOMAIN refreshing
                  /\ p \in DOMAIN refreshing => refreshing'[p] = refreshing[p]
             ELSE \A done \in {Cardinality(TerminalAffecting(handler'.tasks, p))},
                     last \in {handler'.tasks[LastAffecting(handler'.tasks, p)].status
                                 \in TerminalTaskStatuses} :
                    /\ \A i \in LauncherUpdatesOf(p) :
                         /\ IsFraction(events'[i].list, done, Cardinality(aff))
                         /\ events'[i].flag = ~last
                    /\ p \in DOMAIN refreshing' =>
                         /\ refreshing'[p].done = last
                         /\ IsFraction(refreshing'[p].old_progress, done,
                                        Cardinality(aff))]_vars

\* a pass over [Done, Doing, Do] for A left the entry of A at 1/3 with both
\* counters reset, after an earlier pass had counted 2 of 2, and left the
\* entry of B, which the change does not affect, in the table
C23_Witness ==
  /\ handler.op = "manage_change_update"
  /\ handler.arg = "Doing"
  /\ Len(handler.tasks) = 3
  /\ handler.tasks[1].status = "Done"
  /\ "A" \in DOMAIN refreshing
  /\ refreshing["A"].old_progress = <<1, 3>>
  /\ refreshing["A"].total_tasks = 0
  /\ ~refreshing["A"].done
  /\ "B" \in DOMAIN refreshing
  /\ \E i \in DOMAIN events : events[i].sig = "launcher-entry-update"

\* C24: when a pass over a done or cancelled change deletes the progress
\* entry of a package that has desktop files, every launcher update the pass
\* emitted to them, the last one included, has progress-visible and
\* updating false.
C24_FinalSignalBeforeRemoval ==
  [][(/\ handler'.op = "manage_change_update"
      /\ StatusClass(handler'.arg) = "terminal") =>
       \A p \in Pkgs :
         (/\ Affecting(handler'.tasks, p) # {}
          /\ DesktopFiles(p) # <<>>
          /\ p \notin DOMAIN refreshing') =>
           \A i \in LauncherUpdatesOf(p) : events'[i].flag = FALSE]_vars

\* C25: when an update reports a change as done or cancelled while another
\* change, last observed Do or Doing with tasks that affect package p, is
\* still polled, the progress entry of p is not deleted.
C25_EntryKeptForActiveChange ==
  [][(/\ handler'.op = "manage_change_update"
      /\ StatusClass(handler'.arg) = "terminal") =>
       \A p \in DOMAIN refreshing :
         (/\ \A tasks \in DockEnv.taskLists : Affecting(tasks, p) # {}
          /\ \E other \in ChangeIds \ {handler'.key} :
               observed[other] = "working" /\ Polled(other)) =>
           p \in DOMAIN refreshing']_vars

====
